---------------------------- MODULE Spec2Model ----------------------------
(***************************************************************************)
(* TickerTide (src/main.py): scrape the first 60 table rows of a rendered  *)
(* page, filter them for the terminal report, and append the batch to a    *)
(* CSV log and to a styled spreadsheet.                                    *)
(*                                                                         *)
(* Strings are sequences of one-character strings, so that split, replace, *)
(* strip, float(), len() and the CSV quoting act on characters.            *)
(***************************************************************************)
EXTENDS Integers, Sequences, FiniteSets, TLC

VARIABLES
    page,        \* what the renderer shows to the run being modelled
    now,         \* the wall clock, in seconds after midnight
    coins,       \* main's / the caller's batch
    raised,      \* whether the step just taken raised
    min_price,   \* the threshold handed to filter_by_min_price
    high_price,  \* filter_by_min_price(coins, min_price)
    refiltered,  \* filter_by_min_price(high_price, min_price)
    big_gainers, \* filter_top_gainers_24h(coins, 5)
    pc,          \* position of the single run (or of the pure-function driver)
    csv,         \* crypto_prices.csv: [exists, lines]
    xlsx,        \* crypto_prices.xlsx: [kind, wb]
    csvCalls,    \* history: records of the non-empty batches save_to_csv wrote
    xlCalls,     \* history: records of the non-empty batches save_to_excel_styled wrote
    calls,       \* history: number of writer calls / runs so far
    last,        \* history: the last writer call (or the current run) and the files before it
    driver,      \* "none" | "open" | "released"
    quits,       \* number of driver.quit() calls of the current run
    failedAt,    \* the step of the current run that raised, or "none"
    procs        \* the two concurrent runs of the concurrency model

vars == <<page, now, coins, raised, min_price, high_price, refiltered,
          big_gainers, pc,
          csv, xlsx, csvCalls, xlCalls, calls, last, driver, quits,
          failedAt, procs>>

(***************************************************************************)
(* Characters and strings                                                  *)
(***************************************************************************)
Digit == <<"0", "1", "2", "3", "4", "5", "6", "7", "8", "9">>

IsDigit(c) == \E d \in 1..10 : Digit[d] = c

DigitVal(c) == (CHOOSE d \in 1..10 : Digit[d] = c) - 1

Whitespace == {" ", "\n", "\t", "\r"}

\* str.replace(ch, "") for a one-character ch
Replace(s, ch) == SelectSeq(s, LAMBDA c : c # ch)

\* str.strip(): the text from its first to its last non-whitespace character
Strip(s) ==
    LET inked == {i \in 1..Len(s) : s[i] \notin Whitespace}
    IN  IF inked = {} THEN <<>>
        ELSE SubSeq(s, CHOOSE i \in inked : \A j \in inked : i <= j,
                       CHOOSE i \in inked : \A j \in inked : j <= i)

\* s.split("\n")[0]: the text before the first line break
FirstLine(s) ==
    LET breaks == {i \in 1..Len(s) : s[i] = "\n"}
    IN  IF breaks = {} THEN s
        ELSE SubSeq(s, 1, (CHOOSE i \in breaks : \A j \in breaks : i <= j) - 1)

Pow10(k) ==
    LET p[i \in 0..k] == IF i = 0 THEN 1 ELSE 10 * p[i - 1]
    IN  p[k]

\* the number a string of digits writes
DigitsVal(s) ==
    LET v[i \in 0..Len(s)] == IF i = 0 THEN 0 ELSE 10 * v[i - 1] + DigitVal(s[i])
    IN  v[Len(s)]

AllDigits(s) == \A i \in 1..Len(s) : IsDigit(s[i])

Lower(c) ==
    CASE c = "N" -> "n" [] c = "A" -> "a" [] c = "I" -> "i" [] c = "F" -> "f"
      [] OTHER -> c

(***************************************************************************)
(* float(): Python's float() on a stripped string, over the characters the *)
(* model uses (digits, sign, point, and the letters of nan / inf; no       *)
(* exponent and no underscore occur in the modelled inputs).  A number is  *)
(* kept exactly as sign * mant / 10^scale.                                 *)
(***************************************************************************)
None == [kind |-> "None"]

Float(s) ==
    LET signed == s # <<>> /\ Head(s) \in {"-", "+"}
        neg    == s # <<>> /\ Head(s) = "-"
        body   == IF signed THEN Tail(s) ELSE s
        low    == [i \in 1..Len(body) |-> Lower(body[i])]
        dots   == {i \in 1..Len(body) : body[i] = "."}
        dot    == CHOOSE i \in dots : TRUE
        ip     == IF dots = {} THEN body ELSE SubSeq(body, 1, dot - 1)
        fp     == IF dots = {} THEN <<>> ELSE SubSeq(body, dot + 1, Len(body))
    IN  IF low = <<"n", "a", "n">> THEN [kind |-> "nan"]
        ELSE IF low = <<"i", "n", "f">> THEN [kind |-> "inf", neg |-> neg]
        ELSE IF /\ Cardinality(dots) <= 1
                /\ AllDigits(ip) /\ AllDigits(fp)
                /\ Len(ip) + Len(fp) > 0
        THEN [kind |-> "num", neg |-> neg,
              mant |-> DigitsVal(ip \o fp), scale |-> Len(fp)]
        ELSE None

\* p >= m for a parsed float p and an integer m
FloatGE(p, m) ==
    CASE p.kind = "nan" -> FALSE
      [] p.kind = "inf" -> ~p.neg
      [] p.kind = "num" ->
            (IF p.neg THEN 0 - p.mant ELSE p.mant) >= m * Pow10(p.scale)
      [] OTHER -> FALSE

\* parse_price: '$42,000.12' -> 42000.12, None when float() raises
parse_price(price_str) ==
    CHOOSE r \in {Float(clean) :
                    clean \in {Strip(Replace(Replace(price_str, "$"), ","))}} : TRUE

\* parse_percent: '-2.45%' -> -2.45, None when float() raises
parse_percent(percent_str) ==
    CHOOSE r \in {Float(clean) :
                    clean \in {Strip(Replace(Replace(percent_str, "%"), ","))}} : TRUE


(***************************************************************************)
(* The clock and datetime.now().strftime("%Y-%m-%d %H:%M:%S")              *)
(***************************************************************************)
SleepSeconds == 8

DayStart == <<"2", "0", "2", "6", "-", "0", "1", "-", "0", "1", " ">>

TwoDigits(n) == <<Digit[(n \div 10) + 1], Digit[(n % 10) + 1]>>

\* t seconds after midnight of the modelled day
Strftime(t) ==
    DayStart \o TwoDigits((t \div 3600) % 24) \o <<":">>
             \o TwoDigits((t \div 60) % 60) \o <<":">> \o TwoDigits(t % 60)

(***************************************************************************)
(* The rendered page.  A row is [stale, cols]: stale means that            *)
(* row.find_elements raises; a cell is [raises, text]: raises means that   *)
(* reading .text raises.                                                   *)
(***************************************************************************)
TopN == 60

MinCols == 8

Cell(text) == [raises |-> FALSE, text |-> text]

BadCell == [raises |-> TRUE, text |-> <<>>]

Take(s, n) == SubSeq(s, 1, IF Len(s) < n THEN Len(s) ELSE n)

\* lines 58-69: the body of the try; <<>> when reading a cell raises
\* (cols[k] of the code is cols[k + 1] here)
ExtractRow(cols, timestamp) ==
    IF \E k \in {2, 3, 5, 7} : cols[k].raises
    THEN <<>>
    ELSE <<[timestamp  |-> timestamp,
            name       |-> FirstLine(cols[2].text),
            price      |-> cols[3].text,
            change_24h |-> cols[5].text,
            market_cap |-> cols[7].text]>>

\* a guard that is off by one: rows of exactly 8 cells are skipped too
SkipsRowOffByOne(row) == Len(row.cols) <= MinCols

\* line 54: the rows the loop skips with `continue`
SkipsRow(row) == Len(row.cols) < MinCols

\* the appends of a loop, one (possibly empty) sequence per iteration, joined
\* in iteration order (by halves, to keep the evaluation shallow)
RECURSIVE Appended(_)
Appended(ss) ==
    IF ss = <<>> THEN <<>>
    ELSE IF Len(ss) = 1 THEN ss[1]
    ELSE LET h == Len(ss) \div 2
         IN  Appended(SubSeq(ss, 1, h)) \o Appended(SubSeq(ss, h + 1, Len(ss)))

\* lines 52-72: the loop; row.find_elements (line 53) is outside the try, so
\* a stale row ends the loop with an exception
ScrapeLoop(rows, timestamp) ==
    IF \E i \in 1..Len(rows) : rows[i].stale
    THEN [raised |-> TRUE, data |-> <<>>]
    ELSE [raised |-> FALSE,
          data   |-> Appended([i \in 1..Len(rows) |->
                        IF SkipsRow(rows[i]) THEN <<>>
                        ELSE ExtractRow(rows[i].cols, timestamp)])]

\* the slice forgotten: every row of the table is consumed
ConsumedRowsUncut(rows) == rows

\* line 47: rows = rows[:60]
ConsumedRows(rows) == Take(rows, TopN)

\* scrape_top_60_coins, with t the clock when line 50 reads it
scrape_top_60_coins(p, t) ==
    IF ~p.loads THEN [raised |-> TRUE, data |-> <<>>]
    ELSE ScrapeLoop(ConsumedRows(p.rows), Strftime(t))

(***************************************************************************)
(* Filters                                                                 *)
(***************************************************************************)
\* the comparison made strict
KeepsPriceStrict(coin, m) ==
    \E p \in {parse_price(coin.price)} :
        p # None /\ FloatGE(p, m) /\ ~(p.kind = "num" /\ p.mant = m * Pow10(p.scale))

\* line 227
KeepsPrice(coin, m) ==
    \E p \in {parse_price(coin.price)} : p # None /\ FloatGE(p, m)

filter_by_min_price(cs, m) ==
    Appended([i \in 1..Len(cs) |->
                IF KeepsPrice(cs[i], m) THEN <<cs[i]>> ELSE <<>>])

\* line 237
KeepsChange(coin, m) ==
    \E ch \in {parse_percent(coin.change_24h)} : ch # None /\ FloatGE(ch, m)

filter_top_gainers_24h(cs, m) ==
    Appended([i \in 1..Len(cs) |->
                IF KeepsChange(cs[i], m) THEN <<cs[i]>> ELSE <<>>])

(***************************************************************************)
(* The CSV log: [exists, lines], the lines written to the file, each       *)
(* without its terminator.                                                 *)
(***************************************************************************)
NoCsv == [exists |-> FALSE, lines |-> <<>>]

CsvFile(lines) == [exists |-> TRUE, lines |-> lines]

\* the keys of the dicts built at lines 63-69, in insertion order: the
\* DataFrame's columns
CsvColumns ==
    << <<"t", "i", "m", "e", "s", "t", "a", "m", "p">>,
       <<"n", "a", "m", "e">>,
       <<"p", "r", "i", "c", "e">>,
       <<"c", "h", "a", "n", "g", "e", "_", "2", "4", "h">>,
       <<"m", "a", "r", "k", "e", "t", "_", "c", "a", "p">> >>

\* the values of one dict, in column order
RowOf(item) ==
    <<item.timestamp, item.name, item.price, item.change_24h, item.market_cap>>

\* csv.QUOTE_MINIMAL: a field is quoted when it holds the delimiter, the quote
\* character or a line terminator character
NeedsQuote(f) == \E i \in 1..Len(f) : f[i] \in {",", "\"", "\n", "\r"}

\* every quote character written twice
DoubleQuotes(f) ==
    LET d[i \in 0..Len(f)] ==
            IF i = 0 THEN <<>>
            ELSE d[i - 1] \o (IF f[i] = "\"" THEN <<"\"", "\"">> ELSE <<f[i]>>)
    IN  d[Len(f)]

QuoteField(f) ==
    IF NeedsQuote(f) THEN <<"\"">> \o DoubleQuotes(f) \o <<"\"">> ELSE f

\* one line of the file: the fields, quoted as needed, joined by commas
CsvLine(fields) ==
    LET l[i \in 1..Len(fields)] ==
            IF i = 1 THEN QuoteField(fields[1])
            ELSE l[i - 1] \o <<",">> \o QuoteField(fields[i])
    IN  l[Len(fields)]

\* a guard that never returns early
NoCsvDataNever(data) == FALSE

\* line 81: if not data
NoCsvData(data) == data = <<>>

\* the header written on every call
CsvHeaderAlways(file_exists) == TRUE

\* line 87: header = not file_exists
CsvHeader(file_exists) == ~file_exists

\* line 87: df.to_csv(mode="a", header=...): the lines one call appends
CsvOutput(data, header) ==
    (IF header THEN <<CsvLine(CsvColumns)>> ELSE <<>>)
    \o [i \in 1..Len(data) |-> CsvLine(RowOf(data[i]))]

\* the file opened with mode "w": what it held is dropped
CsvWriteOver(file, out) == CsvFile(out)

\* line 87: mode="a": the lines go after what the file holds
CsvAppendTo(file, out) == CsvFile(file.lines \o out)

\* save_to_csv: the file after the call
save_to_csv(data, file) ==
    IF NoCsvData(data) THEN file
    ELSE LET file_exists == file.exists
         IN  CsvAppendTo(file, CsvOutput(data, CsvHeader(file_exists)))

(***************************************************************************)
(* The spreadsheet.  A workbook is [title, rows, styles, widths]: rows are *)
(* the sheet's rows of cell values, styles the style of each row's cells,  *)
(* widths the stored width of each column (<<>> while none is set).  The   *)
(* file is [kind, wb]: kind "none" (no file), "corrupt" (a file that does  *)
(* not load) or "workbook" (the workbook wb as last saved).                *)
(***************************************************************************)
Headers ==
    << <<"T", "i", "m", "e", "s", "t", "a", "m", "p">>,
       <<"N", "a", "m", "e">>,
       <<"P", "r", "i", "c", "e">>,
       <<"2", "4", "h", " ", "C", "h", "a", "n", "g", "e">>,
       <<"M", "a", "r", "k", "e", "t", " ", "C", "a", "p">> >>

\* a cell as ws.append leaves it
Unstyled ==
    [bold |-> FALSE, color |-> "default", fill |-> "none",
     align |-> "general", border |-> "none"]

\* lines 138-139 and 184-185
DataStyle ==
    [bold |-> FALSE, color |-> "default", fill |-> "none",
     align |-> "center", border |-> "thin"]

\* lines 151-163
HeaderStyle ==
    [bold |-> TRUE, color |-> "FFFFFF", fill |-> "4F81BD",
     align |-> "center", border |-> "thin"]

\* Workbook(): one empty sheet
NewWorkbook == [title |-> "Sheet", rows |-> <<>>, styles |-> <<>>, widths |-> <<>>]

NoXlsx == [kind |-> "none", wb |-> NewWorkbook]

CorruptXlsx == [kind |-> "corrupt", wb |-> NewWorkbook]

\* line 197: wb.save(filename) completed
SavedXlsx(wb) == [kind |-> "workbook", wb |-> wb]

\* ws.max_row
MaxRow(wb) == Len(wb.rows)

\* ws.append(row), once per row: new unstyled rows after the last one
AppendRows(wb, newRows) ==
    [wb EXCEPT !.rows = @ \o newRows,
               !.styles = @ \o [i \in 1..Len(newRows) |-> Unstyled]]

\* the cells of rows lo..max_row given a style
StyleRows(wb, lo, style) ==
    [wb EXCEPT !.styles = [r \in 1..Len(@) |-> IF r >= lo THEN style ELSE @[r]]]

\* lines 189-194: max_len after the cells of column col in rows lo.. have
\* been visited, starting from 0
MaxLenFrom(rows, col, lo) ==
    LET max_len[r \in (lo - 1)..Len(rows)] ==
            IF r = lo - 1 THEN 0
            ELSE IF Len(rows[r][col]) > max_len[r - 1] THEN Len(rows[r][col])
            ELSE max_len[r - 1]
    IN  max_len[Len(rows)]

\* the widths fitted to the rows just appended only
FitColumnsNewRows(wb, start_row) ==
    [wb EXCEPT !.widths =
        [c \in 1..Len(Headers) |-> MaxLenFrom(wb.rows, c, start_row) + 2]]

\* lines 187-195: every column's width, from all of its cells
FitColumns(wb, start_row) ==
    [wb EXCEPT !.widths =
        [c \in 1..Len(Headers) |-> MaxLenFrom(wb.rows, c, 1) + 2]]

DataRows(data) == [i \in 1..Len(data) |-> RowOf(data[i])]

\* the header row appended again before the new rows
AppendPathWithHeader(wb, data) ==
    LET start_row == MaxRow(wb) + 1
    IN  FitColumns(StyleRows(AppendRows(wb, <<Headers>> \o DataRows(data)),
                             start_row, DataStyle), start_row)

\* lines 113-139 and 187-195: the loaded workbook with the batch appended
AppendPath(wb, data) ==
    LET start_row == MaxRow(wb) + 1
    IN  FitColumns(StyleRows(AppendRows(wb, DataRows(data)),
                             start_row, DataStyle), start_row)

\* lines 143-185 and 187-195: a new workbook with the header and the batch
CreatePath(data) ==
    LET titled   == [NewWorkbook EXCEPT !.title = "Crypto Data"]
        headed   == StyleRows(AppendRows(titled, <<Headers>>), 1, HeaderStyle)
        withData == StyleRows(AppendRows(headed, DataRows(data)), 2, DataStyle)
    IN  FitColumns(withData, 1)

\* line 96: if not data
NoExcelData(data) == data = <<>>

\* lines 100-195: the workbook in memory before wb.save, from the file seen
\* at line 111; load_workbook raises on a file that is no workbook
BuildWorkbook(data, file) ==
    IF file.kind = "corrupt" THEN [raised |-> TRUE, wb |-> NewWorkbook]
    ELSE IF file.kind = "workbook"
    THEN [raised |-> FALSE, wb |-> AppendPath(file.wb, data)]
    ELSE [raised |-> FALSE, wb |-> CreatePath(data)]

\* save_to_excel_styled when no I/O fails: the outcome and the file after it
save_to_excel_styled(data, file) ==
    IF NoExcelData(data) THEN [raised |-> FALSE, file |-> file]
    ELSE LET b == BuildWorkbook(data, file)
         IN  IF b.raised THEN [raised |-> TRUE, file |-> file]
             ELSE [raised |-> FALSE, file |-> SavedXlsx(b.wb)]

(***************************************************************************)
(* Inputs: the pages, clocks and thresholds the model draws from           *)
(***************************************************************************)
MaxTableRows == 62

PriceList ==
    << <<"$", "4", "2", ",", "0", "0", "0", ".", "1", "2">>,
       <<"N", "/", "A">>,
       <<"$", "0", ".", "5">>,
       <<"n", "a", "n">>,
       <<" ", "$", "1", "0", ",", "0", "0", "0", " ">>,
       <<>>,
       <<"$", "9", ",", "9", "9", "9", ".", "9", "9">>,
       <<"-", "1">> >>

ChangeList ==
    << <<"-", "2", ".", "4", "5", "%">>,
       <<"5", ".", "0", "0", "%">>,
       <<>>,
       <<"1", "2", ".", "3", "%">> >>

CapList ==
    << <<"$", "1", ".", "2", "T">>,
       <<"$", "9", "0", "0", ",", "0", "0", "0">> >>

CoinName(i) == <<"C">> \o TwoDigits(i)

\* the cells of table row i, n of them; the name cell shows a ticker line
\* beneath the name
RowCols(i, n, priceRaises) ==
    [k \in 1..n |->
        CASE k = 2 -> Cell(CoinName(i) \o <<"\n", "T", "K">>)
          [] k = 3 -> IF priceRaises THEN BadCell
                      ELSE Cell(PriceList[(i % Len(PriceList)) + 1])
          [] k = 5 -> Cell(ChangeList[(i % Len(ChangeList)) + 1])
          [] k = 7 -> Cell(CapList[(i % Len(CapList)) + 1])
          [] OTHER -> Cell(<<"x">>)]

RowKinds == {"good", "wide", "short", "nocells", "badtext", "stale"}

RowOfKind(i, kind) ==
    CASE kind = "good"    -> [stale |-> FALSE, cols |-> RowCols(i, 8, FALSE)]
      [] kind = "wide"    -> [stale |-> FALSE, cols |-> RowCols(i, 11, FALSE)]
      [] kind = "short"   -> [stale |-> FALSE, cols |-> RowCols(i, 7, FALSE)]
      [] kind = "nocells" -> [stale |-> FALSE, cols |-> <<>>]
      [] kind = "badtext" -> [stale |-> FALSE, cols |-> RowCols(i, 8, TRUE)]
      [] kind = "stale"   -> [stale |-> TRUE, cols |-> <<>>]

\* a table of n rows, good except at the positions of sp
Table(n, sp) ==
    [i \in 1..n |-> RowOfKind(i, IF i \in DOMAIN sp THEN sp[i] ELSE "good")]

TableLens == (0..3) \cup ((TopN - 2)..MaxTableRows)

Positions == {1, 2, TopN - 1, TopN, TopN + 1}

Pages ==
    {[loads |-> l, rows |-> Table(n, (p1 :> k1) @@ (p2 :> k2))] :
        l \in BOOLEAN, n \in TableLens, p1 \in Positions, p2 \in Positions,
        k1 \in RowKinds, k2 \in {"good", "short", "badtext"}}

Clocks == {0, 52, 3599}

MinPrices == {1, 10000}

NoCall ==
    [writer |-> "none", data |-> <<>>, csvBefore |-> NoCsv, xlsxBefore |-> NoXlsx,
     prevWriter |-> "none", prevEmpty |-> FALSE]

(***************************************************************************)
(* SpecPure: the extractor and the price filter applied to drawn inputs    *)
(***************************************************************************)
InitFiles ==
    /\ csv = NoCsv /\ xlsx = NoXlsx
    /\ csvCalls = <<>> /\ xlCalls = <<>> /\ calls = 0 /\ last = NoCall
    /\ driver = "none" /\ quits = 0 /\ failedAt = "none"
    /\ big_gainers = <<>>
    /\ procs = <<>>

InitPure ==
    /\ page \in Pages
    /\ now \in Clocks
    /\ min_price \in MinPrices
    /\ coins = <<>> /\ raised = FALSE
    /\ high_price = <<>> /\ refiltered = <<>>
    /\ pc = "start"
    /\ InitFiles

filesVars == <<csv, xlsx, csvCalls, xlCalls, calls, last, driver, quits,
               failedAt, big_gainers, procs>>

\* coins = scrape_top_60_coins(driver)
PureScrape ==
    /\ pc = "start"
    /\ LET r == scrape_top_60_coins(page, now)
       IN  /\ raised' = r.raised
           /\ coins' = r.data
           /\ pc' = IF r.raised THEN "raised" ELSE "scraped"
    /\ UNCHANGED <<page, now, min_price, high_price, refiltered, filesVars>>

\* high_price = filter_by_min_price(coins, min_price)
PureFilter ==
    /\ pc = "scraped"
    /\ high_price' = filter_by_min_price(coins, min_price)
    /\ pc' = "filtered"
    /\ UNCHANGED <<page, now, min_price, coins, raised, refiltered, filesVars>>

\* filter_by_min_price(high_price, min_price)
PureRefilter ==
    /\ pc = "filtered"
    /\ refiltered' = filter_by_min_price(high_price, min_price)
    /\ pc' = "refiltered"
    /\ UNCHANGED <<page, now, min_price, coins, raised, high_price, filesVars>>

NextPure == PureScrape \/ PureFilter \/ PureRefilter

SpecPure == InitPure /\ [][NextPure]_vars

(***************************************************************************)
(* SpecWriters: the two writers called one call at a time, with drawn      *)
(* batches, on paths that do not exist at the start                        *)
(***************************************************************************)
MaxCalls == 3

MaxBatch == 3

RecordList ==
    << [timestamp  |-> Strftime(8),
        name       |-> <<"B", "T", "C">>,
        price      |-> <<"$", "4", "2", ",", "0", "0", "0", ".", "1", "2">>,
        change_24h |-> <<"-", "2", ".", "4", "5", "%">>,
        market_cap |-> <<"$", "1", ".", "2", "T">>],
       [timestamp  |-> Strftime(8),
        name       |-> <<"E", "t", "h", "e", "r", "e", "u", "m">>,
        price      |-> <<"N", "/", "A">>,
        change_24h |-> <<>>,
        market_cap |-> <<"$", "9", "0", "0", ",", "0", "0", "0">>],
       [timestamp  |-> Strftime(3599),
        name       |-> <<"S", "a", "y", " ", "\"", "H", "i", "\"", " ", "C", "o", "i", "n">>,
        price      |-> <<"$", "0", ".", "5">>,
        change_24h |-> <<"1", "2", ".", "3", "%">>,
        market_cap |-> <<"1", "2", "3", "4", "5", "6", "7", "8", "9", "0", "1", "2", "3", "4", "5", "6", "7", "8", "9", "0">>] >>

\* n records of RecordList, starting at the k-th and going round
Batch(k, n) == [i \in 1..n |-> RecordList[((k + i - 2) % Len(RecordList)) + 1]]

Batches == {Batch(k, n) : k \in 1..Len(RecordList), n \in 0..MaxBatch}

InitWriters ==
    /\ csv = NoCsv /\ xlsx = NoXlsx
    /\ csvCalls = <<>> /\ xlCalls = <<>> /\ calls = 0 /\ last = NoCall
    /\ page = [loads |-> TRUE, rows |-> <<>>]
    /\ now = 0 /\ min_price = 10000
    /\ coins = <<>> /\ raised = FALSE
    /\ high_price = <<>> /\ refiltered = <<>>
    /\ pc = "writers"
    /\ driver = "none" /\ quits = 0 /\ failedAt = "none"
    /\ big_gainers = <<>>
    /\ procs = <<>>

pureVars == <<page, now, min_price, high_price, refiltered, pc>>

runVars == <<driver, quits, failedAt, big_gainers, procs>>

CallRecord(writer, data) ==
    [writer |-> writer, data |-> data, csvBefore |-> csv, xlsxBefore |-> xlsx,
     prevWriter |-> last.writer,
     prevEmpty |-> last.writer # "none" /\ last.data = <<>>]

\* save_to_csv(data)
CallCsv ==
    /\ pc = "writers" /\ calls < MaxCalls
    /\ \E data \in Batches :
          /\ coins' = data
          /\ csv' = save_to_csv(data, csv)
          /\ csvCalls' = csvCalls \o data
          /\ last' = CallRecord("csv", data)
    /\ calls' = calls + 1
    /\ raised' = FALSE
    /\ UNCHANGED <<xlsx, xlCalls, pureVars, runVars>>

\* save_to_excel_styled(data)
CallExcel ==
    /\ pc = "writers" /\ calls < MaxCalls
    /\ \E data \in Batches :
          LET r == save_to_excel_styled(data, xlsx)
          IN  /\ coins' = data
              /\ xlsx' = r.file
              /\ raised' = r.raised
              /\ xlCalls' = xlCalls \o data
              /\ last' = CallRecord("xlsx", data)
    /\ calls' = calls + 1
    /\ UNCHANGED <<csv, csvCalls, pureVars, runVars>>

NextWriters == CallCsv \/ CallExcel

SpecWriters == InitWriters /\ [][NextWriters]_vars

(***************************************************************************)
(* Spec: main, run after run on the same two paths.  Every step that does  *)
(* I/O either completes or raises; what a failed write leaves on disk is   *)
(* any of the outcomes the platform can produce.                           *)
(***************************************************************************)
MaxRuns == 2

MaxPageRows == 2

MinHighPrice == 10000

MinGain == 5

MainPages ==
    {[loads |-> l, rows |-> Table(n, 1 :> k)] :
        l \in BOOLEAN, n \in 0..MaxPageRows, k \in {"good", "short", "stale"}}

\* the step after `step` in main: lines 249, 256-264, 267, 268
StepAfter(step) ==
    CASE step = "scrape" -> "report"
      [] step = "report" -> "csv"
      [] step = "csv"    -> "excel"
      [] step = "excel"  -> "finally"

\* the cleanup placed after the try block instead of in a finally clause
NextStepNoFinally(step, exc) == IF exc THEN "done" ELSE StepAfter(step)

\* an exception of the CSV writer swallowed
NextStepSwallowCsv(step, exc) ==
    IF exc /\ step # "csv" THEN "finally" ELSE StepAfter(step)

\* lines 248-271: try ... finally: an exception in any step of the try block
\* goes to the finally clause, and so does the end of the block
NextStep(step, exc) == IF exc THEN "finally" ELSE StepAfter(step)

\* line 87 raising: the file is left as it was (it could not be opened), or
\* with any proper prefix of the call's lines appended
CsvFailures(data, file) ==
    LET out == CsvOutput(data, CsvHeader(file.exists))
    IN  {file} \cup {CsvFile(file.lines \o SubSeq(out, 1, k)) : k \in 0..(Len(out) - 1)}

\* line 113 or line 197 raising: the file is left as it was (load failed, or
\* the file is locked), or wb.save, which rewrites the file in place, stopped
\* part way and left a file that is no workbook
ExcelFailures(file) == {file, CorruptXlsx}

RunStart ==
    [writer |-> "main", data |-> <<>>, csvBefore |-> csv, xlsxBefore |-> xlsx,
     prevWriter |-> last.writer, prevEmpty |-> FALSE]

Init ==
    /\ csv = NoCsv /\ xlsx = NoXlsx
    /\ csvCalls = <<>> /\ xlCalls = <<>> /\ calls = 0 /\ last = NoCall
    /\ page = [loads |-> TRUE, rows |-> <<>>]
    /\ now = 0 /\ min_price = MinHighPrice
    /\ coins = <<>> /\ raised = FALSE
    /\ high_price = <<>> /\ refiltered = <<>> /\ big_gainers = <<>>
    /\ pc = "idle"
    /\ driver = "none" /\ quits = 0 /\ failedAt = "none"
    /\ procs = <<>>

histVars == <<csvCalls, xlCalls, min_price, refiltered, procs>>

\* line 246: driver = get_driver(); it is outside the try block, so when it
\* raises the run ends with no driver to release
GetDriver ==
    /\ pc \in {"idle", "done"} /\ calls < MaxRuns
    /\ calls' = calls + 1
    /\ last' = RunStart
    /\ coins' = <<>> /\ high_price' = <<>> /\ big_gainers' = <<>>
    /\ quits' = 0
    /\ \E p \in MainPages : page' = p
    /\ \/ /\ driver' = "open" /\ raised' = FALSE
          /\ failedAt' = "none" /\ pc' = "scrape"
       \/ /\ driver' = "none" /\ raised' = TRUE
          /\ failedAt' = "get_driver" /\ pc' = "done"
    /\ UNCHANGED <<now, csv, xlsx, histVars>>

\* line 249: coins = scrape_top_60_coins(driver), after its 8 seconds of sleep
Scrape ==
    /\ pc = "scrape"
    /\ now' = now + SleepSeconds
    /\ LET r == scrape_top_60_coins(page, now')
       IN  /\ raised' = r.raised
           /\ coins' = r.data
           /\ failedAt' = IF r.raised THEN "scrape" ELSE failedAt
           /\ pc' = NextStep("scrape", r.raised)
    /\ UNCHANGED <<page, high_price, big_gainers, csv, xlsx, calls, last,
                   driver, quits, histVars>>

\* lines 251-264: the terminal report
Report ==
    /\ pc = "report"
    /\ high_price' = filter_by_min_price(coins, MinHighPrice)
    /\ big_gainers' = filter_top_gainers_24h(coins, MinGain)
    /\ raised' = FALSE
    /\ pc' = NextStep("report", FALSE)
    /\ UNCHANGED <<page, now, coins, csv, xlsx, calls, last, driver, quits,
                   failedAt, histVars>>

\* line 267: save_to_csv(coins)
SaveCsv ==
    /\ pc = "csv"
    /\ \/ /\ csv' = save_to_csv(coins, csv)
          /\ raised' = FALSE
          /\ failedAt' = failedAt
       \/ /\ ~NoCsvData(coins)
          /\ csv' \in CsvFailures(coins, csv)
          /\ raised' = TRUE
          /\ failedAt' = "csv"
    /\ pc' = NextStep("csv", raised')
    /\ UNCHANGED <<page, now, coins, high_price, big_gainers, xlsx, calls,
                   last, driver, quits, histVars>>

\* line 268: save_to_excel_styled(coins)
SaveExcel ==
    /\ pc = "excel"
    /\ \/ LET r == save_to_excel_styled(coins, xlsx)
          IN  /\ xlsx' = r.file
              /\ raised' = r.raised
              /\ failedAt' = IF r.raised THEN "excel" ELSE failedAt
       \/ /\ ~NoExcelData(coins)
          /\ xlsx' \in ExcelFailures(xlsx)
          /\ raised' = TRUE
          /\ failedAt' = "excel"
    /\ pc' = NextStep("excel", raised')
    /\ UNCHANGED <<page, now, coins, high_price, big_gainers, csv, calls,
                   last, driver, quits, histVars>>

\* line 271: driver.quit()
Finally ==
    /\ pc = "finally"
    /\ driver' = "released"
    /\ quits' = quits + 1
    /\ pc' = "done"
    /\ UNCHANGED <<page, now, coins, raised, high_price, big_gainers, csv,
                   xlsx, calls, last, failedAt, histVars>>

Next == GetDriver \/ Scrape \/ Report \/ SaveCsv \/ SaveExcel \/ Finally

Spec == Init /\ [][Next]_vars

\* a run, once started, keeps taking its next step
FairSpec ==
    /\ Init /\ [][Next]_vars
    /\ WF_vars(Scrape) /\ WF_vars(Report) /\ WF_vars(SaveCsv)
    /\ WF_vars(SaveExcel) /\ WF_vars(Finally)

(***************************************************************************)
(* SpecConc: two runs at once on the same two paths.  Each writer reads    *)
(* the file's state in one step and writes in a later one, as the code     *)
(* does, and the other run may step in between.                            *)
(***************************************************************************)
Runs == {1, 2}

Other(p) == 3 - p

ConcBatches == {Batch(1, 0), Batch(1, 1), Batch(2, 2)}

\* the files an earlier, completed run left
EarlierCsv == save_to_csv(Batch(3, 1), NoCsv)

EarlierXlsx == save_to_excel_styled(Batch(3, 1), NoXlsx).file

InitConc ==
    /\ \/ csv = NoCsv /\ xlsx = NoXlsx
       \/ csv = EarlierCsv /\ xlsx = EarlierXlsx
    /\ last = [NoCall EXCEPT !.writer = "concurrent",
                             !.csvBefore = csv, !.xlsxBefore = xlsx]
    /\ \E b1 \in ConcBatches, b2 \in ConcBatches :
          procs = [p \in Runs |->
                     [pc |-> "csv_check", coins |-> IF p = 1 THEN b1 ELSE b2,
                      file_exists |-> FALSE, wb |-> NewWorkbook,
                      csvOverlap |-> FALSE, xlOverlap |-> FALSE]]
    /\ csvCalls = <<>> /\ xlCalls = <<>> /\ calls = 0
    /\ page = [loads |-> TRUE, rows |-> <<>>]
    /\ now = 0 /\ min_price = MinHighPrice
    /\ coins = <<>> /\ raised = FALSE
    /\ high_price = <<>> /\ refiltered = <<>> /\ big_gainers = <<>>
    /\ pc = "concurrent"
    /\ driver = "none" /\ quits = 0 /\ failedAt = "none"

seqVars == <<page, now, coins, raised, min_price, high_price, refiltered,
             big_gainers, pc, csvCalls, xlCalls, calls, last, driver, quits,
             failedAt>>

\* lines 81-86 of run p: the empty-batch return, else file_exists is read;
\* csvOverlap records that the other run had read it too and not yet written
CsvCheck(p) ==
    /\ procs[p].pc = "csv_check"
    /\ procs' = [procs EXCEPT ![p] =
          IF NoCsvData(@.coins) THEN [@ EXCEPT !.pc = "xl_load"]
          ELSE [@ EXCEPT !.pc = "csv_write",
                         !.file_exists = csv.exists,
                         !.csvOverlap = procs[Other(p)].pc = "csv_write"]]
    /\ UNCHANGED <<csv, xlsx, seqVars>>

\* line 87 of run p: the lines are appended to the file as it is now
CsvWrite(p) ==
    /\ procs[p].pc = "csv_write"
    /\ csv' = CsvAppendTo(csv, CsvOutput(procs[p].coins,
                                         CsvHeader(procs[p].file_exists)))
    /\ procs' = [procs EXCEPT ![p].pc = "xl_load"]
    /\ UNCHANGED <<xlsx, seqVars>>

\* lines 96-195 of run p: the empty-batch return, else the workbook is loaded
\* (or created) and extended in memory; xlOverlap records that the other run
\* holds a workbook it has not saved yet
XlLoad(p) ==
    /\ procs[p].pc = "xl_load"
    /\ procs' = [procs EXCEPT ![p] =
          IF NoExcelData(@.coins) THEN [@ EXCEPT !.pc = "done"]
          ELSE [@ EXCEPT !.pc = "xl_save",
                         !.wb = BuildWorkbook(procs[p].coins, xlsx).wb,
                         !.xlOverlap = procs[Other(p)].pc = "xl_save"]]
    /\ UNCHANGED <<csv, xlsx, seqVars>>

\* line 197 of run p: wb.save(filename) replaces the file
XlSave(p) ==
    /\ procs[p].pc = "xl_save"
    /\ xlsx' = SavedXlsx(procs[p].wb)
    /\ procs' = [procs EXCEPT ![p].pc = "done"]
    /\ UNCHANGED <<csv, seqVars>>

NextConc == \E p \in Runs : CsvCheck(p) \/ CsvWrite(p) \/ XlLoad(p) \/ XlSave(p)

SpecConc == InitConc /\ [][NextConc]_vars

(***************************************************************************)
(* Claims about the extractor and the price filter (checked under SpecPure) *)
(***************************************************************************)
Consumed == Take(page.rows, TopN)

\* a row has 8 or more cells
HasCells(row) == ~row.stale /\ Len(row.cols) >= 8

\* a row has 8 or more cells and its four fields read without error
Yields(row) == HasCells(row) /\ \A k \in {2, 3, 5, 7} : ~row.cols[k].raises

\* the record table row i yields at time t, written out field by field
RecordOfRow(i, t) ==
    [timestamp  |-> Strftime(t),
     name       |-> CoinName(i),
     price      |-> PriceList[(i % Len(PriceList)) + 1],
     change_24h |-> ChangeList[(i % Len(ChangeList)) + 1],
     market_cap |-> CapList[(i % Len(CapList)) + 1]]

\* the j-th smallest element of a set of numbers
Nth(S, j) == CHOOSE i \in S : Cardinality({k \in S : k < i}) = j - 1

Returned == pc \in {"scraped", "filtered", "refiltered"}

ScrapeActed == pc # "start"

\* C7 as stated: for all rendered tables with at least 60 rows of 8 or more
\* cells, scrape_top_60_coins returns exactly 60 records, in original row order.
C7_AsStated ==
    (/\ pc = "scraped"
     /\ Cardinality({i \in 1..Len(page.rows) : HasCells(page.rows[i])}) >= TopN)
    => /\ Len(coins) = TopN
       /\ \A j \in 1..Len(coins) : coins[j] = RecordOfRow(j, now)

\* C7 (amended): for all rendered tables whose FIRST 60 rows all have 8 or more
\* cells and extract without error, scrape_top_60_coins returns exactly 60
\* records, in original row order.
C7_FirstSixtyWellFormed ==
    (/\ ScrapeActed
     /\ page.loads
     /\ Len(page.rows) >= TopN
     /\ \A i \in 1..TopN : Yields(page.rows[i]))
    => /\ Returned
       /\ Len(coins) = TopN
       /\ \A j \in 1..TopN : coins[j] = RecordOfRow(j, now)

\* a table longer than 60 rows whose first 60 rows are well-formed was scraped
C7_Witness ==
    /\ pc = "scraped"
    /\ Len(page.rows) > TopN
    /\ \A i \in 1..TopN : Yields(page.rows[i])
    /\ ~Yields(page.rows[TopN + 1])
    /\ Len(coins) = TopN

Worth(c) == [num |-> TRUE, cents |-> c]

NoNumber == [num |-> FALSE, cents |-> 0]

PriceWorth ==
    <<Worth(4200012), NoNumber, Worth(50), NoNumber, Worth(1000000), NoNumber,
      Worth(999999), Worth(0 - 100)>>

\* the record's price is a number and it is >= m
PricePresentAndGE(coin, m) ==
    \E k \in 1..Len(PriceList) :
        /\ PriceList[k] = coin.price
        /\ PriceWorth[k].num
        /\ PriceWorth[k].cents >= m * 100

\* C9: filter_by_min_price returns the records whose parsed price is present
\* and >= the threshold, in input order, leaves its input as it was, raises on
\* no record, and returns the same batch when applied to its own result.
C9_FilterIdempotent ==
    /\ pc \in {"filtered", "refiltered"} =>
          /\ high_price = SelectSeq(coins, LAMBDA c : PricePresentAndGE(c, min_price))
          /\ coins = scrape_top_60_coins(page, now).data
    /\ pc = "refiltered" => refiltered = high_price

\* a batch with kept, dropped and unparseable prices was filtered twice
C9_Witness ==
    /\ pc = "refiltered"
    /\ Len(high_price) > 0
    /\ \E i, j, k \in 1..Len(coins) :
          /\ parse_price(coins[i].price) = None
          /\ PricePresentAndGE(coins[j], min_price)
          /\ parse_price(coins[k].price) # None
          /\ ~PricePresentAndGE(coins[k], min_price)

(***************************************************************************)
(* Claims about the writers called in sequence (checked under SpecWriters) *)
(***************************************************************************)
IsPrefix(s, t) == Len(s) <= Len(t) /\ SubSeq(t, 1, Len(s)) = s

\* the j-th smallest element of a set of numbers
NthOf(S, j) == CHOOSE i \in S : Cardinality({k \in S : k < i}) = j - 1

\* a CSV line read back into its fields: a comma separates fields where the
\* number of quote characters before it is even; a quoted field loses its
\* enclosing quotes and a doubled quote inside it is one quote
RECURSIVE Undouble(_)
Undouble(f) ==
    IF f = <<>> THEN <<>>
    ELSE IF Head(f) = "\"" /\ Len(f) >= 2 /\ f[2] = "\""
    THEN <<"\"">> \o Undouble(Tail(Tail(f)))
    ELSE <<Head(f)>> \o Undouble(Tail(f))

Unquote(f) ==
    IF f # <<>> /\ Head(f) = "\"" THEN Undouble(SubSeq(f, 2, Len(f) - 1)) ELSE f

CsvFields(line) ==
    LET quotesBefore(i) == Cardinality({j \in 1..(i - 1) : line[j] = "\""})
        seps == {i \in 1..Len(line) : line[i] = "," /\ quotesBefore(i) % 2 = 0}
        cuts == seps \cup {0, Len(line) + 1}
    IN  [k \in 1..(Cardinality(seps) + 1) |->
            Unquote(SubSeq(line, NthOf(cuts, k) + 1, NthOf(cuts, k + 1) - 1))]

\* the header line of the CSV, as the file shows it
HeaderText ==
    <<"t", "i", "m", "e", "s", "t", "a", "m", "p", ",", "n", "a", "m", "e", ",",
      "p", "r", "i", "c", "e", ",", "c", "h", "a", "n", "g", "e", "_", "2", "4",
      "h", ",", "m", "a", "r", "k", "e", "t", "_", "c", "a", "p">>

HeaderLines(file) == {i \in 1..Len(file) : file[i] = HeaderText}

\* C1: after any sequence of save_to_csv calls on a fresh path the file exists
\* iff a non-empty batch was written, holds exactly one header line, which is
\* its first line, followed by one line per record of the non-empty batches in
\* call order, each reading back as that record; and the call just made kept
\* every earlier line in place.
C1_CsvAppendOnly ==
    /\ (~csv.exists) <=> (csvCalls = <<>>)
    /\ csv.exists =>
          /\ HeaderLines(csv.lines) = {1}
          /\ Len(csv.lines) = 1 + Len(csvCalls)
          /\ \A i \in 1..Len(csvCalls) : CsvFields(csv.lines[i + 1]) = RowOf(csvCalls[i])
    /\ (last.writer = "csv" /\ last.csvBefore.exists) =>
          IsPrefix(last.csvBefore.lines, csv.lines)

\* batch A was written to a fresh path and batch B appended to it
C1_Witness ==
    /\ last.writer = "csv" /\ last.data # <<>>
    /\ last.csvBefore.exists
    /\ Len(csvCalls) > Len(last.data)
    /\ Len(csv.lines) = Len(last.csvBefore.lines) + Len(last.data)
    /\ \E i \in 1..Len(csv.lines) : \E j \in 1..Len(csv.lines[i]) : csv.lines[i][j] = "\""

\* C2: after any sequence of save_to_excel_styled calls on a fresh path the
\* sheet holds the header row followed by the rows of all non-empty batches in
\* call order, and every row that existed before the call just made is
\* unchanged by it.
C2_SheetAppendOnly ==
    /\ (xlsx.kind = "none") <=> (xlCalls = <<>>)
    /\ xlsx.kind = "workbook" =>
          /\ xlsx.wb.rows[1] = Headers
          /\ Len(xlsx.wb.rows) = 1 + Len(xlCalls)
          /\ \A i \in 1..Len(xlCalls) :
                xlsx.wb.rows[i + 1] =
                    <<xlCalls[i].timestamp, xlCalls[i].name, xlCalls[i].price,
                      xlCalls[i].change_24h, xlCalls[i].market_cap>>
    /\ (last.writer = "xlsx" /\ last.xlsxBefore.kind = "workbook") =>
          /\ IsPrefix(last.xlsxBefore.wb.rows, xlsx.wb.rows)
          /\ IsPrefix(last.xlsxBefore.wb.styles, xlsx.wb.styles)

\* a sheet created with a batch of 3 records had a batch of 2 appended
C2_Witness ==
    /\ last.writer = "xlsx" /\ Len(last.data) = 2
    /\ last.xlsxBefore.kind = "workbook"
    /\ Len(last.xlsxBefore.wb.rows) = 4
    /\ Len(xlsx.wb.rows) = 6
    /\ xlsx.wb.styles = <<HeaderStyle, DataStyle, DataStyle, DataStyle, DataStyle, DataStyle>>

SetMax(S) == CHOOSE m \in S : \A x \in S : x <= m

\* the lengths of all cells of column c of the saved sheet
ColumnLens(c) == {Len(xlsx.wb.rows[r][c]) : r \in 1..Len(xlsx.wb.rows)}

\* C4: the stored width of every column is 2 plus the longest text among ALL
\* cells of the column, header and historical rows included; a call that
\* appends a name longer than everything the column held leaves the name
\* column len(name) + 2 wide.
C4_WidthsFitAllRows ==
    /\ xlsx.kind = "workbook" =>
          \A c \in 1..5 : xlsx.wb.widths[c] = 2 + SetMax(ColumnLens(c))
    /\ (last.writer = "xlsx" /\ last.xlsxBefore.kind = "workbook") =>
          \A i \in 1..Len(last.data) :
              (/\ \A r \in 1..Len(last.xlsxBefore.wb.rows) :
                      Len(last.xlsxBefore.wb.rows[r][2]) < Len(last.data[i].name)
               /\ \A j \in 1..Len(last.data) :
                      Len(last.data[j].name) <= Len(last.data[i].name))
              => xlsx.wb.widths[2] = Len(last.data[i].name) + 2

\* short names were appended to a sheet that holds a longer one, and the
\* name column is still as wide as the longer one needs
C4_Witness ==
    /\ last.writer = "xlsx" /\ last.data # <<>>
    /\ last.xlsxBefore.kind = "workbook"
    /\ \A j \in 1..Len(last.data) : Len(last.data[j].name) + 2 < xlsx.wb.widths[2]
    /\ xlsx.wb.widths[2] = 15

\* C5: a writer called with an empty batch changes no file: a missing file
\* stays missing, an existing one keeps its lines, rows, styles and widths;
\* and the header is the first line and first row only, also when the first
\* call was empty.
C5_EmptyBatchNoMutation ==
    /\ (last.writer # "none" /\ last.data = <<>>) =>
          /\ csv = last.csvBefore
          /\ xlsx = last.xlsxBefore
    /\ csv.exists => csv.lines[1] = HeaderText /\ \A i \in 2..Len(csv.lines) : csv.lines[i] # HeaderText
    /\ xlsx.kind = "workbook" =>
          xlsx.wb.rows[1] = Headers /\ \A i \in 2..Len(xlsx.wb.rows) : xlsx.wb.rows[i] # Headers

\* an empty CSV call on a missing path was followed by a non-empty one
C5_Witness ==
    /\ last.writer = "csv" /\ last.data # <<>>
    /\ last.prevWriter = "csv" /\ last.prevEmpty
    /\ ~last.csvBefore.exists
    /\ Len(csv.lines) = 1 + Len(last.data)

(***************************************************************************)
(* Claims about a run of main (checked under Spec and FairSpec)            *)
(***************************************************************************)
RunEnded == pc = "done" /\ last.writer = "main"

\* the lines the CSV gained since the run began
CsvGained ==
    SubSeq(csv.lines, Len(last.csvBefore.lines) + 1, Len(csv.lines))

\* the run's batch is in the CSV in full: the old lines, a header if the file
\* is new, then one line per record of the batch
BatchInCsv ==
    /\ csv.exists
    /\ IsPrefix(last.csvBefore.lines, csv.lines)
    /\ Len(CsvGained) = Len(coins) + (IF last.csvBefore.exists THEN 0 ELSE 1)
    /\ ~last.csvBefore.exists => CsvGained[1] = HeaderText
    /\ \A i \in 1..Len(coins) :
          CsvFields(CsvGained[Len(CsvGained) - Len(coins) + i]) = RowOf(coins[i])

\* the run's batch is in the spreadsheet in full: the old rows (or the header
\* if the file is new), then one row per record of the batch
BatchInXlsx ==
    /\ xlsx.kind = "workbook"
    /\ xlsx.wb.rows =
          (IF last.xlsxBefore.kind = "workbook" THEN last.xlsxBefore.wb.rows
           ELSE <<Headers>>)
          \o [i \in 1..Len(coins) |-> RowOf(coins[i])]

\* no line of the run's batch is in the CSV
NothingInCsv == csv.lines = last.csvBefore.lines

\* at most a proper part of the batch's lines is in the CSV
PartInCsv ==
    /\ IsPrefix(last.csvBefore.lines, csv.lines)
    /\ Len(CsvGained) < Len(coins) + (IF last.csvBefore.exists THEN 0 ELSE 1)

\* no row of the run's batch is in the spreadsheet
NothingInXlsx == xlsx = last.xlsxBefore \/ xlsx = CorruptXlsx

\* C3 as stated: after a run of main ends, normally or by a fatal error in a
\* writer, its batch is in full in both stores or in neither.
C3_AsStated ==
    RunEnded =>
        \/ BatchInCsv /\ BatchInXlsx
        \/ NothingInCsv /\ NothingInXlsx

\* C3 (amended): a run that ends normally leaves its batch in full in both
\* stores (an empty batch changes neither); a run ended by a fatal error of
\* the spreadsheet writer leaves the batch in full in the CSV and no row of it
\* in the spreadsheet; a run ended by a fatal error of the CSV writer leaves
\* at most a proper part of the batch in the CSV and the spreadsheet untouched;
\* a run ended before the writers changes neither store.
C3_PerStoreOutcome ==
    RunEnded =>
        CASE failedAt = "none" /\ coins # <<>> -> BatchInCsv /\ BatchInXlsx
          [] failedAt = "none" /\ coins = <<>> ->
                csv = last.csvBefore /\ xlsx = last.xlsxBefore
          [] failedAt = "excel" -> BatchInCsv /\ NothingInXlsx
          [] failedAt = "csv" -> PartInCsv /\ xlsx = last.xlsxBefore
          [] OTHER -> csv = last.csvBefore /\ xlsx = last.xlsxBefore

\* a run appended its batch to the CSV and then failed in the spreadsheet
\* writer, which left the earlier workbook as it was
C3_Witness ==
    /\ RunEnded /\ failedAt = "excel" /\ coins # <<>>
    /\ BatchInCsv /\ last.csvBefore.exists
    /\ xlsx.kind = "workbook" /\ xlsx = last.xlsxBefore

\* C6: the driver a run acquired is released on every exit path: driver.quit
\* runs at most once per run, a run that acquired a driver has ended only
\* after exactly one driver.quit, no step of the pipeline changes anything
\* after the release, and an open driver is eventually released.
C6_DriverReleased ==
    /\ [](quits <= 1)
    /\ []((pc = "done" /\ failedAt # "get_driver" /\ calls > 0)
            => (quits = 1 /\ driver = "released"))
    /\ [][(driver = "released" /\ driver' = "released")
            => UNCHANGED <<page, now, coins, high_price, big_gainers, csv, xlsx>>]_vars
    /\ (driver = "open" ~> driver = "released")

\* a run whose spreadsheet write raised has ended with its driver released
C6_Witness ==
    /\ pc = "done" /\ failedAt = "excel"
    /\ quits = 1 /\ driver = "released"

(***************************************************************************)
(* Claims about two runs at once (checked under SpecConc)                  *)
(***************************************************************************)
BothDone == \A p \in Runs : procs[p].pc = "done"

\* the data rows the sheet would hold had the two runs run one after the other
RowsDue ==
    (IF last.xlsxBefore.kind = "workbook" THEN Len(last.xlsxBefore.wb.rows) - 1
     ELSE 0) + Len(procs[1].coins) + Len(procs[2].coins)

\* the sheet lacks rows of a run that has finished
SheetMissesBatch ==
    (IF xlsx.kind = "workbook" THEN Len(xlsx.wb.rows) - 1 ELSE 0) < RowsDue

TwoHeaders == Cardinality(HeaderLines(csv.lines)) = 2

\* both runs read the CSV's existence before either wrote
CsvRace == \E p \in Runs : procs[p].csvOverlap

\* both runs loaded (or created) the workbook before either saved
XlRace == \E p \in Runs : procs[p].xlOverlap

\* C10: two runs at once are not safe.  When both have finished, the sheet
\* lacks one run's batch exactly when both built their workbook before either
\* saved, and the CSV holds two header lines exactly when the path was fresh
\* and both read its existence before either wrote; both failures are reached
\* (C10_Witness), and without such an interleaving neither occurs.
C10_RacesBreakStores ==
    BothDone =>
        /\ SheetMissesBatch <=> XlRace
        /\ TwoHeaders <=> (CsvRace /\ ~last.csvBefore.exists)
        /\ Cardinality(HeaderLines(csv.lines)) \in {0, 1, 2}

\* two runs on fresh paths have finished, the CSV holds two header lines and
\* the sheet holds the batch of one run only
C10_Witness ==
    /\ BothDone
    /\ ~last.csvBefore.exists
    /\ TwoHeaders /\ csv.lines[1] = HeaderText
    /\ SheetMissesBatch
    /\ \E p \in Runs :
          xlsx.wb.rows = <<Headers>> \o [i \in 1..Len(procs[p].coins) |->
                                            RowOf(procs[p].coins[i])]

=============================================================================
